---- MODULE Spec2Model ----
(***************************************************************************)
(* A model of the order book engine of src/src/main.rs: PriceLevel,        *)
(* Orderbook (two ordered side maps, the reverse index order_locations,    *)
(* the sequence counter and the last-update stamp) and OrderbookEngine     *)
(* (the bounded queue and its single consumer).                            *)
(*                                                                         *)
(* An f64 is modelled by its IEEE-754 fields (sign, biased exponent, the   *)
(* 52-bit fraction), a u64 by four 16-bit limbs, most significant first,   *)
(* so that to_bits / from_bits, the key transform u64::MAX - price_bits    *)
(* and the wrapping fetch_add / fetch_sub on bit patterns are computed as  *)
(* the machine computes them.                                              *)
(***************************************************************************)
EXTENDS Integers, Sequences, FiniteSets, TLC

\* ---------------------------------------------------------------- bounds

\* Mutations applied to one book before the model stops issuing calls (the
\* sequence counter is a u64 and is not reached in any run).
MaxSeq == 3
\* Largest depth asked of get_snapshot.
MaxDepth == 2

\* The order ids the sequential callers use.
OrderIds == {1, 2}
\* Prices and sizes are f64 values the callers pass; the integers here are the
\* values of the literals, converted by F64Of.
PriceValues == {-1, 1, 2}
SizeValues == {1, 2}
Timestamps == {5}
Depths == 0..MaxDepth

\* ------------------------------------------------------------ u64 and f64

Limb == 2^16
ExpBias == 2^10 - 1
ExpMax == 2^11 - 1
SignBit == 2^15

U64Zero == <<0, 0, 0, 0>>
U64Max == <<Limb - 1, Limb - 1, Limb - 1, Limb - 1>>

\* a < b, position by position from the most significant one.
LexLt(a, b) ==
  \E i \in 1..Len(a) : a[i] < b[i] /\ \A j \in 1..(i - 1) : a[j] = b[j]

\* a < b as unsigned 64-bit integers (the BTreeMap's key order).
U64Lt(a, b) == LexLt(a, b)

\* AtomicU64::fetch_add: a + b modulo 2^64.
wrapping_add(a, b) ==
  LET s4 == a[4] + b[4]
      s3 == a[3] + b[3] + (s4 \div Limb)
      s2 == a[2] + b[2] + (s3 \div Limb)
      s1 == a[1] + b[1] + (s2 \div Limb)
  IN  <<s1 % Limb, s2 % Limb, s3 % Limb, s4 % Limb>>

\* AtomicU64::fetch_sub and u64 subtraction: a - b modulo 2^64.
wrapping_sub(a, b) ==
  LET d4 == a[4] - b[4]
      d3 == a[3] - b[3] - (IF d4 < 0 THEN 1 ELSE 0)
      d2 == a[2] - b[2] - (IF d3 < 0 THEN 1 ELSE 0)
      d1 == a[1] - b[1] - (IF d2 < 0 THEN 1 ELSE 0)
  IN  <<(d1 + Limb) % Limb, (d2 + Limb) % Limb, (d3 + Limb) % Limb, (d4 + Limb) % Limb>>

RECURSIVE Log2(_)
Log2(a) == IF a < 2 THEN 0 ELSE 1 + Log2(a \div 2)

\* The f64 whose value is the integer n, |n| < 2^21: sign, biased exponent and
\* the fraction as <<top 4 bits, 16 bits, 16 bits, 16 bits>>.
F64Of(n) ==
  LET a == IF n < 0 THEN -n ELSE n
      e == Log2(a)
      m20 == (a - 2^e) * 2^(20 - e)
  IN  IF a = 0
      THEN [neg |-> FALSE, exp |-> 0, man |-> <<0, 0, 0, 0>>]
      ELSE [neg |-> n < 0, exp |-> e + ExpBias,
            man |-> <<m20 \div Limb, m20 % Limb, 0, 0>>]

\* f64::to_bits: the 64-bit pattern of the fields.
to_bits(f) ==
  <<(IF f.neg THEN SignBit ELSE 0) + f.exp * 16 + f.man[1], f.man[2], f.man[3], f.man[4]>>

\* f64::from_bits: the fields of a 64-bit pattern.
from_bits(b) ==
  [neg |-> b[1] >= SignBit,
   exp |-> (b[1] % SignBit) \div 16,
   man |-> <<b[1] % 16, b[2], b[3], b[4]>>]

F64IsZero(f) == f.exp = 0 /\ f.man = <<0, 0, 0, 0>>
F64IsNaN(f) == f.exp = ExpMax /\ f.man # <<0, 0, 0, 0>>

\* The integer value of an integral f64 of magnitude below 2^21.
F64ToInt(f) ==
  LET e == f.exp - ExpBias
      m20 == f.man[1] * Limb + f.man[2]
      a == 2^e + (m20 \div 2^(20 - e))
  IN  IF F64IsZero(f) THEN 0 ELSE IF f.neg THEN -a ELSE a

\* f64 == : equal fields, or both zeros; a NaN equals nothing.
F64Eq(x, y) ==
  /\ ~F64IsNaN(x)
  /\ ~F64IsNaN(y)
  /\ (x = y \/ (F64IsZero(x) /\ F64IsZero(y)))

\* |x| < |y| on the fields.
F64MagLt(x, y) == LexLt(<<x.exp>> \o x.man, <<y.exp>> \o y.man)

\* f64 < for numbers.
F64Lt(x, y) ==
  /\ ~F64IsNaN(x)
  /\ ~F64IsNaN(y)
  /\ ~(F64IsZero(x) /\ F64IsZero(y))
  /\ IF x.neg # y.neg THEN x.neg
     ELSE IF x.neg THEN F64MagLt(y, x) ELSE F64MagLt(x, y)

\* f64 subtraction; exact on the integral operands the model uses.
F64Sub(x, y) == F64Of(F64ToInt(x) - F64ToInt(y))

Prices == {F64Of(n) : n \in PriceValues}
Sizes == {F64Of(n) : n \in SizeValues}

\* ------------------------------------------------------------------ maps

EmptyMap == [k \in {} |-> k]
MapPut(m, k, v) == [x \in (DOMAIN m) \cup {k} |-> IF x = k THEN v ELSE m[x]]
MapDel(m, k) == [x \in (DOMAIN m) \ {k} |-> m[x]]

\* BTreeMap::iter: the keys in ascending u64 order.
RECURSIVE SortedKeys(_)
SortedKeys(S) ==
  IF S = {} THEN <<>>
  ELSE LET m == CHOOSE x \in S : \A y \in S : ~U64Lt(y, x)
       IN  <<m>> \o SortedKeys(S \ {m})

\* Iterator::take
Take(s, n) == SubSeq(s, 1, IF n < Len(s) THEN n ELSE Len(s))

\* ------------------------------------------------------------ PriceLevel

PriceLevel_new(price) ==
  [price |-> price, orders |-> EmptyMap, total_size |-> U64Zero]

\* PriceLevel::add_order: DashMap::insert overwrites an entry under the same
\* id; the size's bit pattern is added to the accumulator either way.
PriceLevel_add_order(level, order) ==
  [level EXCEPT !.orders = MapPut(@, order.order_id, order),
                !.total_size = wrapping_add(@, to_bits(order.size))]

\* PriceLevel::remove_order: the level afterwards; unchanged when the id is
\* not in it.
PriceLevel_remove_order(level, order_id) ==
  IF order_id \in DOMAIN level.orders
  THEN [level EXCEPT !.orders = MapDel(@, order_id),
                     !.total_size = wrapping_sub(@, to_bits(level.orders[order_id].size))]
  ELSE level

\* PriceLevel::total_size
total_size(level) == from_bits(level.total_size)

\* ------------------------------------------------------------- Orderbook

Orderbook_new(market_id) ==
  [market_id |-> market_id, bids |-> EmptyMap, asks |-> EmptyMap,
   order_locations |-> EmptyMap, sequence |-> 0, last_update |-> 0]

\* The key of a price in its side's map.
SideKey(is_buy, price_bits) ==
  IF is_buy THEN wrapping_sub(U64Max, price_bits) ELSE price_bits

\* add_order, lines 86-98: under the side's write lock, the level is looked up
\* or created and the order inserted in it.
add_order_insert(book, order, is_buy) ==
  LET key == SideKey(is_buy, to_bits(order.price))
      side == IF is_buy THEN book.bids ELSE book.asks
      level == IF key \in DOMAIN side THEN side[key] ELSE PriceLevel_new(order.price)
      side2 == MapPut(side, key, PriceLevel_add_order(level, order))
  IN  IF is_buy THEN [book EXCEPT !.bids = side2] ELSE [book EXCEPT !.asks = side2]

\* add_order, line 100
add_order_index(book, order_id, is_buy, price) ==
  [book EXCEPT !.order_locations = MapPut(@, order_id, <<is_buy, to_bits(price)>>)]

\* A variant: a store where the fetch_add is.
sequence_store_one(book) == [book EXCEPT !.sequence = 1]

\* add_order, line 101, and cancel_order, line 125
sequence_fetch_add(book) == [book EXCEPT !.sequence = @ + 1]

\* add_order, line 102. The timestamps of the model are not negative, and
\* `as u64` keeps the value of those.
last_update_store(book, timestamp) == [book EXCEPT !.last_update = timestamp]

add_order(book, order_id, is_buy, price, size, timestamp) ==
  LET order == [order_id |-> order_id, price |-> price, size |-> size,
                timestamp |-> timestamp]
  IN  last_update_store(
        sequence_fetch_add(
          add_order_index(add_order_insert(book, order, is_buy), order_id, is_buy, price)),
        timestamp)

\* A variant: the emptied level stays in the side map.
cancel_order_remove_keeps_level(book, order_id, is_buy, price_bits) ==
  LET key == SideKey(is_buy, price_bits)
      side == IF is_buy THEN book.bids ELSE book.asks
      side2 == IF key \notin DOMAIN side THEN side
               ELSE MapPut(side, key, PriceLevel_remove_order(side[key], order_id))
  IN  IF is_buy THEN [book EXCEPT !.bids = side2] ELSE [book EXCEPT !.asks = side2]

\* A variant: the level leaves the map without the check that it is empty.
cancel_order_remove_drops_level(book, order_id, is_buy, price_bits) ==
  LET key == SideKey(is_buy, price_bits)
      side == IF is_buy THEN book.bids ELSE book.asks
      side2 == IF key \notin DOMAIN side THEN side ELSE MapDel(side, key)
  IN  IF is_buy THEN [book EXCEPT !.bids = side2] ELSE [book EXCEPT !.asks = side2]

\* cancel_order, lines 107-124: under the side's write lock, the order leaves
\* the level the index named, and the level leaves the map when it is empty.
cancel_order_remove(book, order_id, is_buy, price_bits) ==
  LET key == SideKey(is_buy, price_bits)
      side == IF is_buy THEN book.bids ELSE book.asks
      level == PriceLevel_remove_order(side[key], order_id)
      side2 == IF key \notin DOMAIN side THEN side
               ELSE IF DOMAIN level.orders = {} THEN MapDel(side, key)
               ELSE MapPut(side, key, level)
  IN  IF is_buy THEN [book EXCEPT !.bids = side2] ELSE [book EXCEPT !.asks = side2]

\* A variant: the index entry is read and left in place.
cancel_order_unindex_get(book, order_id) == book

\* cancel_order, line 106: DashMap::remove on the index.
cancel_order_unindex(book, order_id) ==
  [book EXCEPT !.order_locations = MapDel(@, order_id)]

\* A variant: the sequence advances outside the `if let`, found or not.
cancel_order_counts_misses(book, order_id) ==
  IF order_id \in DOMAIN book.order_locations
  THEN LET loc == book.order_locations[order_id]
           unindexed == cancel_order_unindex(book, order_id)
       IN  [book |-> sequence_fetch_add(
                       cancel_order_remove(unindexed, order_id, loc[1], loc[2])),
            found |-> TRUE]
  ELSE [book |-> sequence_fetch_add(book), found |-> FALSE]

\* cancel_order: the book afterwards and the value returned.
cancel_order(book, order_id) ==
  IF order_id \in DOMAIN book.order_locations
  THEN LET loc == book.order_locations[order_id]
           unindexed == cancel_order_unindex(book, order_id)
       IN  [book |-> sequence_fetch_add(
                       cancel_order_remove(unindexed, order_id, loc[1], loc[2])),
            found |-> TRUE]
  ELSE [book |-> book, found |-> FALSE]

\* One side of a snapshot: the first `depth` levels in key order.
snapshot_levels(side, depth) ==
  LET keys == Take(SortedKeys(DOMAIN side), depth)
  IN  [i \in 1..Len(keys) |->
         [price |-> side[keys[i]].price,
          size |-> total_size(side[keys[i]]),
          orders |-> Cardinality(DOMAIN side[keys[i]].orders)]]

get_snapshot(book, depth) ==
  LET bid_levels == snapshot_levels(book.bids, depth)
      ask_levels == snapshot_levels(book.asks, depth)
  IN  [market_id |-> book.market_id,
       sequence |-> book.sequence,
       timestamp |-> book.last_update,
       bids |-> bid_levels,
       asks |-> ask_levels,
       spread |-> IF bid_levels # <<>> /\ ask_levels # <<>>
                  THEN F64Sub(ask_levels[1].price, bid_levels[1].price)
                  ELSE F64Of(0)]

\* ---------------------------------------------------------------- state

VARIABLES
  book,   \* one Orderbook, called directly (sequentially, or by threads)
  ret,    \* the last call on `book`: its name, the depth asked of get_snapshot,
          \* and the value returned (for modify, what its cancel_order returned)
  pre,    \* history: what the book showed before the last place of a new id
  incs,   \* history: by how much each modify so far advanced the sequence
  pc,     \* threads calling `book`: where each is in its call
  call,   \* threads: the arguments (and locals) of each one's current call
  script, \* threads: the calls each makes, in order
  at,     \* threads: how many calls of its script each has started
  lock,   \* the write-lock holder of book.bids and of book.asks (0: free)
  readers, \* the threads holding the read lock of book.bids and of book.asks
  orderbooks, \* engine: market id -> Orderbook
  queue,      \* engine: the channel's buffer, oldest first
  waiters,    \* engine: the send_order calls suspended on a full queue
  consumer,   \* engine: process_orders, where it is and the action it holds
  handles,    \* engine: the producers that still hold the Arc<OrderbookEngine>
  last,       \* history: how process_orders ended the last action it finished
  sent,       \* history: how many actions have entered the queue
  applied,    \* history: how many actions process_orders has finished with
  ref         \* history: the books, had each action been applied whole when
              \* it entered the queue

bookVars == <<book, ret>>
threadVars == <<pc, call, script, at, lock, readers>>
engineVars == <<orderbooks, queue, waiters, consumer, handles, sent, applied, last, ref>>
vars == <<book, ret, pre, incs, pc, call, script, at, lock, readers,
          orderbooks, queue, waiters, consumer, handles, sent, applied, last, ref>>

\* Threads calling one book at once.
NumThreads == 3
Threads == 1..NumThreads
NoCall == [op |-> "none"]

\* Any market id: an Orderbook never reads it but to stamp snapshots.
BookMarket == 0

NoPre == [stage |-> "none", id |-> 0, obs |-> <<>>]

\* order_id is in some level of `side`.
ResidentIn(side, order_id) == {k \in DOMAIN side : order_id \in DOMAIN side[k].orders}

\* What a reader can see of the levels and the index: every level of both
\* sides (price, aggregate size, order count), best first, and the index.
Observable(b) ==
  [bids |-> snapshot_levels(b.bids, Cardinality(DOMAIN b.bids)),
   asks |-> snapshot_levels(b.asks, Cardinality(DOMAIN b.asks)),
   index |-> b.order_locations]

\* order_id is nowhere in the book.
Fresh(b, order_id) ==
  /\ order_id \notin DOMAIN b.order_locations
  /\ ResidentIn(b.bids, order_id) = {}
  /\ ResidentIn(b.asks, order_id) = {}

InitBook ==
  /\ book = Orderbook_new(BookMarket)
  /\ ret = [op |-> "new", arg |-> 0, val |-> TRUE]

\* No thread: the book is called sequentially.
InitNoThreads ==
  /\ pc = [t \in Threads |-> "idle"]
  /\ call = [t \in Threads |-> NoCall]
  /\ script = [t \in Threads |-> <<>>]
  /\ at = [t \in Threads |-> 0]
  /\ lock = [bids |-> 0, asks |-> 0]
  /\ readers = [bids |-> {}, asks |-> {}]

\* The markets the engine is constructed with (main, line 278, registers
\* four), and a market id that is not among them.
MarketIds == {0, 1}
UnknownMarket == 9

\* The tasks that hold a clone of the Arc<OrderbookEngine> and call send_order
\* on it (main holds one, line 280).
Producers == {1, 2}

\* OrderbookEngine::new, lines 210-213
OrderbookEngine_new(market_ids) == [m \in market_ids |-> Orderbook_new(m)]

NoAction == [n |-> 0]

InitEngineIdle ==
  /\ orderbooks = OrderbookEngine_new(MarketIds)
  /\ queue = <<>>
  /\ waiters = <<>>
  /\ consumer = [pc |-> "recv", action |-> NoAction]
  /\ handles = Producers
  /\ last = "none"
  /\ sent = 0
  /\ applied = 0
  /\ ref = OrderbookEngine_new(MarketIds)

Init ==
  /\ InitBook
  /\ pre = NoPre
  /\ incs = {}
  /\ InitNoThreads
  /\ InitEngineIdle

\* --------------------------------------- the Orderbook called sequentially

AddOrder(order_id, is_buy, price, size, timestamp) ==
  /\ book.sequence < MaxSeq
  /\ book' = add_order(book, order_id, is_buy, price, size, timestamp)
  /\ ret' = [op |-> "add_order", arg |-> 0, val |-> TRUE]

CancelOrder(order_id) ==
  /\ book.sequence < MaxSeq
  /\ book' = cancel_order(book, order_id).book
  /\ ret' = [op |-> "cancel_order", arg |-> 0, val |-> cancel_order(book, order_id).found]

\* process_orders, lines 246-253: the modify command with its fields present.
modify(b, order_id, is_buy, price, size, timestamp) ==
  add_order(cancel_order(b, order_id).book, order_id, is_buy, price, size, timestamp)

Modify(order_id, is_buy, price, size, timestamp) ==
  /\ book.sequence + 1 < MaxSeq
  /\ book' = modify(book, order_id, is_buy, price, size, timestamp)
  /\ ret' = [op |-> "modify", arg |-> 0, val |-> cancel_order(book, order_id).found]

GetSnapshot(depth) ==
  /\ book' = book
  /\ ret' = [op |-> "get_snapshot", arg |-> depth, val |-> get_snapshot(book, depth)]

Next ==
  \/ \E id \in OrderIds, is_buy \in BOOLEAN, p \in Prices, s \in Sizes, t \in Timestamps :
       AddOrder(id, is_buy, p, s, t) /\ UNCHANGED <<pre, incs, threadVars, engineVars>>
  \/ \E id \in OrderIds : CancelOrder(id) /\ UNCHANGED <<pre, incs, threadVars, engineVars>>
  \/ \E id \in OrderIds, is_buy \in BOOLEAN, p \in Prices, s \in Sizes, t \in Timestamps :
       Modify(id, is_buy, p, s, t) /\ UNCHANGED <<pre, incs, threadVars, engineVars>>
  \/ \E d \in Depths : GetSnapshot(d) /\ UNCHANGED <<pre, incs, threadVars, engineVars>>

Spec == Init /\ [][Next]_vars

\* The calls that change the book, with the history of the last place of a
\* new id and of the amounts by which the modifies advanced the sequence.
NextRoundTrip ==
  \/ \E id \in OrderIds, is_buy \in BOOLEAN, p \in Prices, s \in Sizes, t \in Timestamps :
       /\ AddOrder(id, is_buy, p, s, t)
       /\ pre' = IF Fresh(book, id)
                 THEN [stage |-> "placed", id |-> id, obs |-> Observable(book)]
                 ELSE NoPre
       /\ UNCHANGED <<incs, threadVars, engineVars>>
  \/ \E id \in OrderIds :
       /\ CancelOrder(id)
       /\ pre' = IF pre.stage = "placed" /\ pre.id = id
                 THEN [pre EXCEPT !.stage = "cancelled"]
                 ELSE NoPre
       /\ UNCHANGED <<incs, threadVars, engineVars>>
  \/ \E id \in OrderIds, is_buy \in BOOLEAN, p \in Prices, s \in Sizes, t \in Timestamps :
       /\ Modify(id, is_buy, p, s, t)
       /\ pre' = NoPre
       /\ incs' = incs \cup {book'.sequence - book.sequence}
       /\ UNCHANGED <<threadVars, engineVars>>

SpecRoundTrip == Init /\ [][NextRoundTrip]_vars

\* ------------------------------------- the Orderbook called by threads
\* One step per access to shared state. The statements under a side's write
\* lock (lines 87-91, 93-97, 108-114, 117-122) are one step, which ends with
\* the guard's release: no other access to a side map or a level is made
\* without the side's lock.

SideName(is_buy) == IF is_buy THEN "bids" ELSE "asks"

\* The first step of a call.
FirstPc(c) ==
  IF c.op = "add_order" THEN "a_lock"
  ELSE IF c.op = "cancel_order" THEN "c_index"
  ELSE "s_bids"

\* The writers waiting for a side's lock.
WaitingWriters(side) ==
  {t \in Threads :
     \/ pc[t] = "a_lock" /\ SideName(call[t].is_buy) = side
     \/ pc[t] = "c_lock" /\ SideName(call[t].loc[1]) = side}

\* RwLock::write, lines 87, 93, 108 and 117: the side has neither a writer
\* nor readers.
can_write(l, r, side) == l[side] = 0 /\ r[side] = {}

\* RwLock::read, lines 133-134: no writer holds the side and (parking_lot's
\* lock lets no new reader pass a waiting writer) none waits for it. A reader
\* that takes the lock with a writer waiting reaches no state that a reader
\* arriving just before that writer does not reach.
can_read(l, side, waiting) == l[side] = 0 /\ waiting = {}

\* A variant: the write guard is leaked, the side stays locked.
write_unlock_leaked(l, side) == l

\* The write guard goes out of scope (lines 92, 98, 115, 123).
write_unlock(l, side) == [l EXCEPT ![side] = 0]

\* A thread starts the next call of its script.
StartCall(t) ==
  /\ pc[t] = "idle"
  /\ at[t] < Len(script[t])
  /\ call' = [call EXCEPT ![t] = script[t][at[t] + 1]]
  /\ at' = [at EXCEPT ![t] = @ + 1]
  /\ pc' = [pc EXCEPT ![t] = FirstPc(script[t][at[t] + 1])]
  /\ UNCHANGED <<book, ret, pre, incs, script, lock, readers, engineVars>>

\* add_order, lines 87 and 93: RwLock::write waits for the side to be free.
AddLock(t) ==
  /\ pc[t] = "a_lock"
  /\ can_write(lock, readers, SideName(call[t].is_buy))
  /\ lock' = [lock EXCEPT ![SideName(call[t].is_buy)] = t]
  /\ pc' = [pc EXCEPT ![t] = "a_insert"]
  /\ UNCHANGED <<book, ret, pre, incs, call, script, at, readers, engineVars>>

\* add_order, lines 88-91 and 94-97, and the release of the guard at line 98.
AddInsert(t) ==
  /\ pc[t] = "a_insert"
  /\ book' = add_order_insert(book,
                [order_id |-> call[t].order_id, price |-> call[t].price,
                 size |-> call[t].size, timestamp |-> call[t].timestamp],
                call[t].is_buy)
  /\ lock' = write_unlock(lock, SideName(call[t].is_buy))
  /\ pc' = [pc EXCEPT ![t] = "a_index"]
  /\ UNCHANGED <<ret, pre, incs, call, script, at, readers, engineVars>>

\* add_order, line 100
AddIndex(t) ==
  /\ pc[t] = "a_index"
  /\ book' = add_order_index(book, call[t].order_id, call[t].is_buy, call[t].price)
  /\ pc' = [pc EXCEPT ![t] = "a_seq"]
  /\ UNCHANGED <<ret, pre, incs, call, script, at, lock, readers, engineVars>>

\* add_order, line 101
AddSeq(t) ==
  /\ pc[t] = "a_seq"
  /\ book' = sequence_fetch_add(book)
  /\ pc' = [pc EXCEPT ![t] = "a_ts"]
  /\ UNCHANGED <<ret, pre, incs, call, script, at, lock, readers, engineVars>>

\* add_order, line 102, and the return
AddStamp(t) ==
  /\ pc[t] = "a_ts"
  /\ book' = last_update_store(book, call[t].timestamp)
  /\ pc' = [pc EXCEPT ![t] = "idle"]
  /\ UNCHANGED <<ret, pre, incs, call, script, at, lock, readers, engineVars>>

\* cancel_order, line 106: the index entry is removed and read in one
\* DashMap::remove; without one the call returns false (line 128).
CancelIndex(t) ==
  /\ pc[t] = "c_index"
  /\ IF call[t].order_id \in DOMAIN book.order_locations
     THEN /\ call' = [call EXCEPT ![t] =
                       [op |-> "cancel_order", order_id |-> call[t].order_id,
                        loc |-> book.order_locations[call[t].order_id]]]
          /\ book' = cancel_order_unindex(book, call[t].order_id)
          /\ pc' = [pc EXCEPT ![t] = "c_lock"]
     ELSE /\ pc' = [pc EXCEPT ![t] = "idle"]
          /\ UNCHANGED <<book, call>>
  /\ UNCHANGED <<ret, pre, incs, script, at, lock, readers, engineVars>>

\* cancel_order, lines 108 and 117
CancelLock(t) ==
  /\ pc[t] = "c_lock"
  /\ can_write(lock, readers, SideName(call[t].loc[1]))
  /\ lock' = [lock EXCEPT ![SideName(call[t].loc[1])] = t]
  /\ pc' = [pc EXCEPT ![t] = "c_remove"]
  /\ UNCHANGED <<book, ret, pre, incs, call, script, at, readers, engineVars>>

\* cancel_order, lines 109-114 and 118-122, and the release of the guard.
CancelRemove(t) ==
  /\ pc[t] = "c_remove"
  /\ book' = cancel_order_remove(book, call[t].order_id, call[t].loc[1], call[t].loc[2])
  /\ lock' = write_unlock(lock, SideName(call[t].loc[1]))
  /\ pc' = [pc EXCEPT ![t] = "c_seq"]
  /\ UNCHANGED <<ret, pre, incs, call, script, at, readers, engineVars>>

\* cancel_order, lines 125-126
CancelSeq(t) ==
  /\ pc[t] = "c_seq"
  /\ book' = sequence_fetch_add(book)
  /\ pc' = [pc EXCEPT ![t] = "idle"]
  /\ UNCHANGED <<ret, pre, incs, call, script, at, lock, readers, engineVars>>

ThreadStep(t) ==
  \/ AddLock(t)
  \/ AddInsert(t)
  \/ AddIndex(t)
  \/ AddSeq(t)
  \/ AddStamp(t)
  \/ CancelIndex(t)
  \/ CancelLock(t)
  \/ CancelRemove(t)
  \/ CancelSeq(t)

\* The scenario of N concurrent add_order calls with distinct ids at one price
\* of one side, then N concurrent cancel_order calls: thread t places and then
\* cancels order t.
AddCall(t, is_buy, price, size) ==
  [op |-> "add_order", order_id |-> t, is_buy |-> is_buy, price |-> price,
   size |-> size, timestamp |-> t]
CancelCall(t) == [op |-> "cancel_order", order_id |-> t]

InitAddsThenCancels ==
  /\ InitBook
  /\ pre = NoPre
  /\ incs = {}
  /\ pc = [t \in Threads |-> "idle"]
  /\ call = [t \in Threads |-> NoCall]
  /\ at = [t \in Threads |-> 0]
  /\ lock = [bids |-> 0, asks |-> 0]
  /\ readers = [bids |-> {}, asks |-> {}]
  /\ InitEngineIdle
  /\ \E is_buy \in BOOLEAN, price \in Prices, sizes \in [Threads -> Sizes] :
       script = [t \in Threads |->
                  <<AddCall(t, is_buy, price, sizes[t]), CancelCall(t)>>]

\* Every add_order of the scenario has returned.
AddsCompleted == \A t \in Threads : at[t] >= 1 /\ (at[t] = 1 => pc[t] = "idle")

\* The cancels start once every add has returned.
StartInPhase(t) ==
  /\ at[t] = 1 => AddsCompleted
  /\ StartCall(t)

NextAddsThenCancels == \E t \in Threads : StartInPhase(t) \/ ThreadStep(t)

SpecAddsThenCancels == InitAddsThenCancels /\ [][NextAddsThenCancels]_vars

\* get_snapshot, line 133: the read lock of the bids.
SnapLockBids(t) ==
  /\ pc[t] = "s_bids"
  /\ can_read(lock, "bids", WaitingWriters("bids"))
  /\ readers' = [readers EXCEPT !.bids = @ \cup {t}]
  /\ pc' = [pc EXCEPT ![t] = "s_asks"]
  /\ UNCHANGED <<book, ret, pre, incs, call, script, at, lock, engineVars>>

\* get_snapshot, line 134: the read lock of the asks, with that of the bids
\* held.
SnapLockAsks(t) ==
  /\ pc[t] = "s_asks"
  /\ can_read(lock, "asks", WaitingWriters("asks"))
  /\ readers' = [readers EXCEPT !.asks = @ \cup {t}]
  /\ pc' = [pc EXCEPT ![t] = "s_seq"]
  /\ UNCHANGED <<book, ret, pre, incs, call, script, at, lock, engineVars>>

\* get_snapshot, lines 136-164: the levels, which no writer can change while
\* both read locks are held, and the load of the sequence counter.
SnapSequence(t) ==
  /\ pc[t] = "s_seq"
  /\ call' = [call EXCEPT ![t] =
               [op |-> "get_snapshot", depth |-> call[t].depth,
                val |-> get_snapshot(book, call[t].depth)]]
  /\ pc' = [pc EXCEPT ![t] = "s_ts"]
  /\ UNCHANGED <<book, ret, pre, incs, script, at, lock, readers, engineVars>>

\* get_snapshot, lines 165-170: the load of last_update, the return, and the
\* release of both read guards.
SnapStamp(t) ==
  /\ pc[t] = "s_ts"
  /\ call' = [call EXCEPT ![t].val.timestamp = book.last_update]
  /\ readers' = [bids |-> readers.bids \ {t}, asks |-> readers.asks \ {t}]
  /\ pc' = [pc EXCEPT ![t] = "idle"]
  /\ UNCHANGED <<book, ret, pre, incs, script, at, lock, engineVars>>

SnapshotStep(t) ==
  \/ SnapLockBids(t)
  \/ SnapLockAsks(t)
  \/ SnapSequence(t)
  \/ SnapStamp(t)

\* Threads that each make one call, any of add_order, cancel_order and
\* get_snapshot, at any time: every interleaving of up to NumThreads calls.
\* The orders are of two ids, on either side, at one price.
AddOf(order_id, is_buy) ==
  [op |-> "add_order", order_id |-> order_id, is_buy |-> is_buy,
   price |-> F64Of(1), size |-> F64Of(1), timestamp |-> 5]
CancelOf(order_id) == [op |-> "cancel_order", order_id |-> order_id]
SnapshotOf(depth) == [op |-> "get_snapshot", depth |-> depth]
ThreadCalls ==
  <<AddOf(1, TRUE), AddOf(1, FALSE), AddOf(2, TRUE), AddOf(2, FALSE),
    CancelOf(1), CancelOf(2), SnapshotOf(MaxDepth)>>

\* The calls that differ in the locks they take: an add_order on either
\* side, a cancel_order, which takes the lock of the side the index names,
\* and a get_snapshot.
LockCalls == <<AddOf(1, TRUE), AddOf(1, FALSE), CancelOf(1), SnapshotOf(MaxDepth)>>

InitCalls(calls) ==
  /\ InitBook
  /\ pre = NoPre
  /\ incs = {}
  /\ pc = [t \in Threads |-> "idle"]
  /\ call = [t \in Threads |-> NoCall]
  /\ at = [t \in Threads |-> 0]
  /\ lock = [bids |-> 0, asks |-> 0]
  /\ readers = [bids |-> {}, asks |-> {}]
  /\ InitEngineIdle
  \* threads are interchangeable: one assignment of calls to threads stands
  \* for its permutations
  /\ \E choice \in [Threads -> 1..Len(calls)] :
       /\ \A t \in Threads : t < NumThreads => choice[t] <= choice[t + 1]
       /\ script = [t \in Threads |-> <<calls[choice[t]]>>]

InitThreads == InitCalls(ThreadCalls)

NextThreads == \E t \in Threads : StartCall(t) \/ ThreadStep(t) \/ SnapshotStep(t)

\* The threads are scheduled: while some thread inside a call can take its
\* step, some such step is taken. (No thread is obliged to start a call.)
CallStep == \E t \in Threads : ThreadStep(t) \/ SnapshotStep(t)
FairThreads == WF_vars(CallStep)

SpecThreads == InitThreads /\ [][NextThreads]_vars

\* The threads' use of the locks, under fair scheduling.
SpecLocks == InitCalls(LockCalls) /\ [][NextThreads]_vars /\ FairThreads

\* ------------------------------------------------------- OrderbookEngine

\* The queue's capacity in the model (mpsc::channel(100_000) in the source).
QueueCap == 2
\* Actions the producers send in one run.
MaxSent == 3

\* An Option: <<>> is None, <<x>> is Some(x).
None == <<>>
Some(x) == <<x>>
IsSome(o) == o # <<>>
unwrap_or(o, d) == IF o = <<>> THEN d ELSE o[1]

\* The OrderAction values the producers send: every kind with its fields on
\* each registered market, a place at a second price, place and modify lacking
\* one field, a cancel for each market and for one that is not registered, and
\* a kind that is none of place, cancel and modify. cancel and unknown kinds
\* read no optional field.
FieldSets ==
  {[side |-> sd, price |-> pr, size |-> sz] :
     sd \in {None, Some("buy")}, pr \in {None, Some(F64Of(1))}, sz \in {None, Some(F64Of(1))}}
Lacking(f) ==
  (IF f.side = None THEN 1 ELSE 0) + (IF f.price = None THEN 1 ELSE 0)
    + (IF f.size = None THEN 1 ELSE 0)
ActionOf(kind, asset, order_id, f) ==
  [action |-> kind, asset |-> asset, order_id |-> order_id, side |-> f.side,
   price |-> f.price, size |-> f.size, timestamp |-> Some(5)]
NoFields == [side |-> None, price |-> None, size |-> None]
SecondPrice == [side |-> Some("buy"), price |-> Some(F64Of(2)), size |-> Some(F64Of(2))]
OrderActions ==
  {ActionOf(k, m, 1, f) : k \in {"place", "modify"}, m \in MarketIds,
                         f \in {x \in FieldSets : Lacking(x) = 0}}
    \cup {ActionOf("place", 0, 1, SecondPrice)}
    \cup {ActionOf(k, 0, 1, f) : k \in {"place", "modify"},
                                f \in {x \in FieldSets : Lacking(x) = 1}}
    \cup {ActionOf("cancel", m, 1, NoFields) : m \in MarketIds \cup {UnknownMarket}}
    \cup {ActionOf("noop", 0, 1, NoFields)}

\* The pattern of lines 229-230 and 244-245.
HasFields(a) == IsSome(a.side) /\ IsSome(a.price) /\ IsSome(a.size)

\* process_orders, lines 231-237 and 247-253: the add_order call of an action.
action_add_order(b, a) ==
  add_order(b, a.order_id, a.side[1] = "buy", a.price[1], a.size[1],
            unwrap_or(a.timestamp, 0))

\* A modify of a registered market with its fields: the action makes two calls.
IsTwoCalls(books, a) ==
  a.asset \in DOMAIN books /\ a.action = "modify" /\ HasFields(a)

\* A variant: a modify cancels the order before it looks at its fields.
match_action_cancels_first(b, a) ==
  IF a.action = "place"
  THEN IF HasFields(a) THEN action_add_order(b, a) ELSE b
  ELSE IF a.action = "cancel" \/ a.action = "modify"
       THEN cancel_order(b, a.order_id).book
  ELSE b

\* process_orders, lines 227-257: the match on the action's kind, up to and
\* including its first call on the book (its only call, but for modify).
match_action(b, a) ==
  IF a.action = "place"
  THEN IF HasFields(a) THEN action_add_order(b, a) ELSE b
  ELSE IF a.action = "cancel"
       THEN cancel_order(b, a.order_id).book
  ELSE IF a.action = "modify"
       THEN IF HasFields(a) THEN cancel_order(b, a.order_id).book ELSE b
  ELSE b

\* A variant: a book is made for a market that has none
\* (entry(..).or_insert_with in place of get).
process_action_or_insert(books, a) ==
  IF a.asset \notin DOMAIN books
  THEN MapPut(books, a.asset, Orderbook_new(a.asset))
  ELSE [books EXCEPT ![a.asset] = match_action(@, a)]

\* process_orders, lines 226-257: the action is routed to its market's book,
\* if the market has one.
process_action(books, a) ==
  IF a.asset \notin DOMAIN books THEN books
  ELSE [books EXCEPT ![a.asset] = match_action(@, a)]

\* process_orders, lines 247-253: the add_order of a modify.
process_modify_add(books, a) ==
  [books EXCEPT ![a.asset] = action_add_order(@, a)]

\* One whole iteration of the loop of process_orders on an action.
process_whole(books, a) ==
  IF IsTwoCalls(books, a)
  THEN process_modify_add(process_action(books, a), a)
  ELSE process_action(books, a)

\* How one iteration of the loop ends for an action: it reaches the book
\* ("applied"), or falls through line 226 ("market"), lines 229-230
\* ("place_fields"), lines 244-245 ("modify_fields") or line 256 ("kind").
outcome(books, a) ==
  IF a.asset \notin DOMAIN books THEN "market"
  ELSE IF a.action = "place"
       THEN IF HasFields(a) THEN "applied" ELSE "place_fields"
  ELSE IF a.action = "cancel" THEN "applied"
  ELSE IF a.action = "modify"
       THEN IF HasFields(a) THEN "applied" ELSE "modify_fields"
  ELSE "kind"

\* A variant: the newest entry is received (a stack, not a queue).
recv_newest(q) == [entry |-> q[Len(q)], rest |-> SubSeq(q, 1, Len(q) - 1)]

\* Receiver::recv, line 225: the oldest entry leaves the buffer.
recv(q) == [entry |-> Head(q), rest |-> Tail(q)]

\* A variant: a buffer that takes every entry (an unbounded channel).
has_capacity_unbounded(q) == TRUE

\* mpsc::channel(100_000), line 208: the buffer has a free slot.
has_capacity(q) == Len(q) < QueueCap

\* An action enters the buffer (Sender::send, line 267, once there is room);
\* `waited` records whether its send_order was suspended first.
Enqueue(a, waited) ==
  /\ queue' = Append(queue, [n |-> sent + 1, a |-> a, waited |-> waited])
  /\ sent' = sent + 1
  /\ ref' = process_whole(ref, a)

\* send_order, lines 266-268: with room in the buffer and nobody waiting for
\* it, the action is enqueued; otherwise the caller is suspended.
SendOrder(p, a) ==
  /\ sent + Len(waiters) < MaxSent
  /\ p \in handles
  /\ \A i \in 1..Len(waiters) : waiters[i].p # p
  /\ IF has_capacity(queue) /\ waiters = <<>>
     THEN Enqueue(a, FALSE) /\ UNCHANGED waiters
     ELSE /\ waiters' = Append(waiters, [p |-> p, a |-> a])
          /\ UNCHANGED <<queue, sent, ref>>
  /\ UNCHANGED <<orderbooks, consumer, handles, applied, last>>

\* A suspended send_order completes when the buffer has room; the waiting
\* senders are served in arrival order.
SendResume ==
  /\ waiters # <<>>
  /\ has_capacity(queue)
  /\ Enqueue(Head(waiters).a, TRUE)
  /\ waiters' = Tail(waiters)
  /\ UNCHANGED <<orderbooks, consumer, handles, applied, last>>

\* A producer drops its clone of the Arc<OrderbookEngine> (it is not inside
\* send_order, which borrows the engine).
Release(p) ==
  /\ p \in handles
  /\ \A i \in 1..Len(waiters) : waiters[i].p # p
  /\ handles' = handles \ {p}
  /\ UNCHANGED <<orderbooks, queue, waiters, consumer, sent, applied, last, ref>>

\* The holders of the Arc<OrderbookEngine>, and so of the channel's only
\* Sender (the field order_processor, line 203): the producers, and
\* process_orders itself, whose receiver `self: Arc<Self>` (line 224) is the
\* clone made at line 283 and lives until the loop returns.
ConsumerHandle == 0
engine_holders(h, c) == h \cup (IF c.pc # "done" THEN {ConsumerHandle} ELSE {})

\* Receiver::recv returns None once the buffer is empty and every Sender has
\* been dropped.
channel_closed(q, h, c) == q = <<>> /\ engine_holders(h, c) = {}

\* process_orders, line 225: the consumer takes the next action, waits for
\* one while the buffer is empty, and leaves the loop when recv returns None.
Recv ==
  /\ consumer.pc = "recv"
  /\ IF queue # <<>>
     THEN /\ consumer' = [pc |-> "apply", action |-> recv(queue).entry]
          /\ queue' = recv(queue).rest
     ELSE /\ channel_closed(queue, handles, consumer)
          /\ consumer' = [pc |-> "done", action |-> NoAction]
          /\ UNCHANGED queue
  /\ UNCHANGED <<orderbooks, waiters, handles, sent, applied, last, ref>>

\* process_orders, lines 226-257: the action is routed and applied, or dropped.
Apply ==
  /\ consumer.pc = "apply"
  /\ orderbooks' = process_action(orderbooks, consumer.action.a)
  /\ IF IsTwoCalls(orderbooks, consumer.action.a)
     THEN consumer' = [consumer EXCEPT !.pc = "modify_add"] /\ UNCHANGED <<applied, last>>
     ELSE /\ consumer' = [pc |-> "recv", action |-> NoAction]
          /\ applied' = applied + 1
          /\ last' = outcome(orderbooks, consumer.action.a)
  /\ UNCHANGED <<queue, waiters, handles, sent, ref>>

\* process_orders, lines 247-253
ModifyAdd ==
  /\ consumer.pc = "modify_add"
  /\ orderbooks' = process_modify_add(orderbooks, consumer.action.a)
  /\ consumer' = [pc |-> "recv", action |-> NoAction]
  /\ applied' = applied + 1
  /\ last' = "applied"
  /\ UNCHANGED <<queue, waiters, handles, sent, ref>>

NextEngine ==
  \/ \E p \in Producers, a \in OrderActions :
       SendOrder(p, a) /\ UNCHANGED <<bookVars, pre, incs, threadVars>>
  \/ SendResume /\ UNCHANGED <<bookVars, pre, incs, threadVars>>
  \/ Recv /\ UNCHANGED <<bookVars, pre, incs, threadVars>>
  \/ Apply /\ UNCHANGED <<bookVars, pre, incs, threadVars>>
  \/ ModifyAdd /\ UNCHANGED <<bookVars, pre, incs, threadVars>>

\* The engine while every producer keeps its handle, as main does.
SpecEngine == Init /\ [][NextEngine]_vars

\* The engine whose producers may let go of their handles.
NextShutdown ==
  \/ NextEngine
  \/ \E p \in Producers : Release(p) /\ UNCHANGED <<bookVars, pre, incs, threadVars>>

SpecShutdown == Init /\ [][NextShutdown]_vars

\* ----------------------------------------------------------- the claim C10

\* Nothing is in flight: no send is suspended, the buffer is empty and the
\* consumer waits in recv.
EngineQuiet == waiters = <<>> /\ queue = <<>> /\ consumer.pc = "recv"

\* C10: process_orders applies the actions in the order they entered the
\* queue, one at a time: the action it holds is the oldest one not yet
\* finished, the buffer holds the following ones in order, and once nothing
\* is in flight the books are what applying each action whole, in enqueue
\* order, gives.
C10_AppliedInEnqueueOrder ==
  LET held == IF consumer.pc = "recv" THEN 0 ELSE 1
  IN  /\ consumer.pc # "recv" => consumer.action.n = applied + 1
      /\ \A i \in 1..Len(queue) : queue[i].n = applied + held + i
      /\ EngineQuiet => orderbooks = ref

C10_Witness ==
  /\ EngineQuiet
  /\ applied = MaxSent
  /\ orderbooks[0].sequence >= 2
  /\ orderbooks[1].sequence >= 1

\* ------------------------------------------------- the claims, C1 to C8

\* Where order_id resides: <<is_bid, key>> of every level that holds it.
Residences(b, order_id) ==
  {<<TRUE, k>> : k \in ResidentIn(b.bids, order_id)}
    \cup {<<FALSE, k>> : k \in ResidentIn(b.asks, order_id)}

\* C1: in every quiescent state the reverse index has an entry for an order id
\* if and only if the order resides in exactly one level of exactly one side,
\* the entry names that side and price, and no id resides in two levels.
C1_ReverseIndexExact ==
  \A id \in OrderIds :
    LET res == Residences(book, id)
        loc == book.order_locations[id]
    IN  /\ Cardinality(res) <= 1
        /\ (id \in DOMAIN book.order_locations) <=> (Cardinality(res) = 1)
        /\ id \in DOMAIN book.order_locations =>
             res = {<<loc[1], SideKey(loc[1], loc[2])>>}

RECURSIVE SumOfSizes(_)
SumOfSizes(orders) ==
  IF DOMAIN orders = {} THEN 0
  ELSE LET id == CHOOSE x \in DOMAIN orders : TRUE
       IN  F64ToInt(orders[id].size) + SumOfSizes(MapDel(orders, id))

AllLevels(b) == {b.bids[k] : k \in DOMAIN b.bids} \cup {b.asks[k] : k \in DOMAIN b.asks}

\* C2: every level's aggregate size equals the sum of the sizes of the orders
\* resident in it.
C2_AggregateIsSum ==
  \A level \in AllLevels(book) :
    F64Eq(total_size(level), F64Of(SumOfSizes(level.orders)))

\* C3: the sequence counter never decreases; add_order adds 1, a cancel_order
\* that finds its order adds 1, a modify adds what its cancel_order and its
\* add_order add, and nothing else changes it.
C3_SequenceSteps ==
  [][/\ book'.sequence >= book.sequence
     /\ ret'.op = "add_order" => book'.sequence = book.sequence + 1
     /\ ret'.op = "cancel_order" =>
          book'.sequence = book.sequence + (IF ret'.val THEN 1 ELSE 0)
     /\ ret'.op = "modify" =>
          book'.sequence = book.sequence + (IF ret'.val THEN 2 ELSE 1)
     /\ ret'.op = "get_snapshot" => book'.sequence = book.sequence]_vars

C3_Witness ==
  /\ ret.op = "cancel_order"
  /\ ret.val
  /\ book.sequence = MaxSeq

\* C4: cancel_order of an id with no index entry returns false and leaves the
\* whole book as it was.
C4_CancelAbsentIsNoop ==
  [][\A id \in OrderIds :
       (id \notin DOMAIN book.order_locations /\ CancelOrder(id)) =>
         (ret'.val = FALSE /\ book' = book)]_vars

C4_Witness ==
  /\ ret.op = "cancel_order"
  /\ ret.val = FALSE
  /\ book.sequence > 0
  /\ DOMAIN book.order_locations # {}

\* C5: a place of an id that is nowhere in the book, followed by the cancel of
\* that id, leaves the levels of both sides and the index as before the place.
C5_PlaceCancelRestores ==
  pre.stage = "cancelled" => Observable(book) = pre.obs

C5_Witness ==
  /\ pre.stage = "cancelled"
  /\ ret.op = "cancel_order"
  /\ pre.obs.bids # <<>>
  /\ Observable(book) = pre.obs

StrictlyDescending(levels) ==
  \A i \in 1..(Len(levels) - 1) : F64Lt(levels[i + 1].price, levels[i].price)
StrictlyAscending(levels) ==
  \A i \in 1..(Len(levels) - 1) : F64Lt(levels[i].price, levels[i + 1].price)

\* C6: a snapshot lists the bids in strictly descending price order and the
\* asks in strictly ascending price order.
C6_SnapshotOrdered ==
  ret.op = "get_snapshot" =>
    /\ StrictlyDescending(ret.val.bids)
    /\ StrictlyAscending(ret.val.asks)

LevelPrices(side) == {side[k].price : k \in DOMAIN side}
Min2(a, b) == IF a < b THEN a ELSE b

\* The `depth` best prices: those with fewer than `depth` better ones.
BestBids(side, depth) ==
  {p \in LevelPrices(side) :
     Cardinality({q \in LevelPrices(side) : F64Lt(p, q)}) < depth}
BestAsks(side, depth) ==
  {p \in LevelPrices(side) :
     Cardinality({q \in LevelPrices(side) : F64Lt(q, p)}) < depth}

\* C7: get_snapshot(d) returns min(d, levels) levels per side, and they are the
\* d highest-priced bids and the d lowest-priced asks.
C7_SnapshotBestLevels ==
  ret.op = "get_snapshot" =>
    LET snap == ret.val
        d == ret.arg
    IN  /\ Len(snap.bids) = Min2(d, Cardinality(DOMAIN book.bids))
        /\ Len(snap.asks) = Min2(d, Cardinality(DOMAIN book.asks))
        /\ {snap.bids[i].price : i \in 1..Len(snap.bids)} = BestBids(book.bids, d)
        /\ {snap.asks[i].price : i \in 1..Len(snap.asks)} = BestAsks(book.asks, d)

\* C8: the spread of a snapshot is the lowest ask price minus the highest bid
\* price of the book when both sides have levels, and 0 otherwise, at every
\* depth.
C8_SpreadIsBestAskMinusBestBid ==
  ret.op = "get_snapshot" =>
    IF DOMAIN book.bids # {} /\ DOMAIN book.asks # {}
    THEN \E a \in BestAsks(book.asks, 1), b \in BestBids(book.bids, 1) :
           F64Eq(ret.val.spread, F64Sub(a, b))
    ELSE F64Eq(ret.val.spread, F64Of(0))

\* ------------------------------------------------------------ the claim C9

AllReturned == \A t \in Threads : at[t] = Len(script[t]) /\ pc[t] = "idle"

\* C9: after N concurrent add_order calls with distinct ids at one price and,
\* once they have returned, N concurrent cancel_order calls for those ids, the
\* side map has no level at that price and the index no entry for the ids,
\* whatever the interleaving.
C9_AddsThenCancelsLeaveNothing ==
  AllReturned =>
    LET first == script[1][1]
        side == IF first.is_buy THEN book.bids ELSE book.asks
    IN  /\ SideKey(first.is_buy, to_bits(first.price)) \notin DOMAIN side
        /\ \A t \in Threads : t \notin DOMAIN book.order_locations

C9_Witness ==
  /\ AllReturned
  /\ Len(script[1]) = 2
  /\ book.sequence = 2 * NumThreads

\* --------------------------------------------------- the claims C11 to C13

\* The consumer finishes, without a second call, the action it holds.
Finishes == consumer.pc = "apply" /\ consumer'.pc = "recv"

\* C11: the markets are those the engine was constructed with, in every
\* state; an action for a market that is not one of them is dropped: no book
\* changes, none is created, the buffer is left alone and the consumer goes
\* on to receive the next action.
C11_UnregisteredMarketDropped ==
  /\ [](DOMAIN orderbooks = MarketIds)
  /\ [][(consumer.pc = "apply" /\ consumer' # consumer
            /\ consumer.action.a.asset \notin MarketIds)
          => (Finishes /\ orderbooks' = orderbooks /\ queue' = queue
                /\ applied' = applied + 1)]_vars

\* An action for market 9 has just been dropped, after another had changed a
\* book, which is still as it was.
C11_Witness ==
  /\ last = "market"
  /\ applied >= 2
  /\ orderbooks[0].sequence >= 1
  /\ consumer.pc = "recv"

\* The action lacks a field its kind reads, or is of no known kind.
Malformed(a) ==
  \/ a.action \in {"place", "modify"} /\ ~HasFields(a)
  \/ a.action \notin {"place", "cancel", "modify"}

\* C12: a place or modify that lacks side, price or size, and an action of
\* any other kind than place, cancel and modify, is dropped with every book
\* unchanged; a modify lacking a field does not cancel its order.
C12_MalformedActionDropped ==
  [][(consumer.pc = "apply" /\ consumer' # consumer
        /\ consumer.action.a.asset \in MarketIds
        /\ Malformed(consumer.action.a))
      => (Finishes /\ orderbooks' = orderbooks)]_vars

\* A modify lacking a field has just been dropped while its order was
\* resident and indexed: the order is still there.
C12_Witness ==
  /\ last = "modify_fields"
  /\ 1 \in DOMAIN orderbooks[0].order_locations
  /\ ResidentIn(orderbooks[0].bids, 1) # {}

\* One more send_order has been called.
SendArrives == sent' + Len(waiters') = sent + Len(waiters) + 1

\* A caller joins the end of the line of suspended callers; the buffer is
\* untouched.
JoinsLine ==
  /\ Len(waiters') = Len(waiters) + 1
  /\ SubSeq(waiters', 1, Len(waiters)) = waiters
  /\ queue' = queue
  /\ sent' = sent

\* The first suspended caller's action enters the buffer, which had a free
\* slot, at its end, and the caller leaves the line.
HeadEnters ==
  /\ waiters' = Tail(waiters)
  /\ Len(queue) < QueueCap
  /\ Len(queue') = Len(queue) + 1
  /\ SubSeq(queue', 1, Len(queue)) = queue
  /\ queue'[Len(queue')].a = Head(waiters).a
  /\ sent' = sent + 1

\* C13: the buffer never holds more than its capacity. A send_order that
\* finds it full (or finds earlier callers waiting) is suspended with the
\* buffer untouched; a suspended action stays in line, unchanged, until the
\* buffer has a free slot, and then enters the buffer once, at its end; no
\* entry is lost or repeated.
C13_BoundedQueueSuspendsSender ==
  /\ [](Len(queue) <= QueueCap)
  /\ [](sent = applied + (IF consumer.pc \in {"recv", "done"} THEN 0 ELSE 1) + Len(queue))
  /\ [][((SendArrives /\ ~has_capacity(queue)) => JoinsLine)
          /\ ((waiters # <<>> /\ waiters' # waiters) => (JoinsLine \/ HeadEnters))]_vars

\* The consumer holds an action whose send_order was suspended on a full
\* buffer and resumed.
C13_Witness ==
  /\ consumer.pc = "apply"
  /\ consumer.action.waited
  /\ consumer.action.n = MaxSent

\* ------------------------------------------------------------ the claim C14

\* Every producer has returned from send_order and dropped its handle.
ProducersGone == handles = {} /\ waiters = <<>>

\* A step of process_orders.
ConsumerStep == Recv \/ Apply \/ ModifyAdd

\* C14: process_orders waits while the buffer is empty, and once every
\* producer has stopped sending and released the engine it works the buffer
\* off and leaves its loop: with the producers gone, the consumer has
\* returned or can take a step, in every state.
C14_ConsumerExitsWhenProducersGone ==
  ProducersGone => (consumer.pc = "done" \/ ENABLED ConsumerStep)

\* ------------------------------------------------------------ the claim C15

SideOf(b, side) == IF side = "bids" THEN b.bids ELSE b.asks

\* C15: under every interleaving of add_order and cancel_order calls, in
\* every state where a side's write lock is not held, no level of that side's
\* map has an empty set of orders.
C15_NoEmptyLevel ==
  \A side \in {"bids", "asks"} :
    lock[side] = 0 =>
      \A k \in DOMAIN SideOf(book, side) : DOMAIN SideOf(book, side)[k].orders # {}

\* A level has been created, emptied by a cancel_order and removed while an
\* add_order waits for that side's lock.
C15_Witness ==
  /\ \E t \in Threads : pc[t] = "c_seq" /\ call[t].loc[1]
  /\ \E t \in Threads : pc[t] = "a_lock" /\ call[t].is_buy
  /\ lock.bids = 0
  /\ DOMAIN book.bids = {}

\* ------------------------------------------------------------ the claim C16

\* The add_order of thread t has returned.
AddReturned(t) == script[t][1].op = "add_order" /\ at[t] = 1 /\ pc[t] = "idle"

\* Thread u is in, or has returned from, a cancel_order of order_id that took
\* the order's index entry.
CancelTook(u, order_id) ==
  /\ at[u] = 1
  /\ call[u].op = "cancel_order"
  /\ call[u].order_id = order_id
  /\ "loc" \in DOMAIN call[u]

\* C16: under every interleaving, an order whose add_order has returned and
\* which no cancel_order has cancelled is resident in the level of its price,
\* and that level is in the side map: no cancel_order of another order at
\* that price removes the level from under it.
C16_AddedOrderStaysResident ==
  \A t \in Threads :
    (AddReturned(t) /\ \A u \in Threads : ~CancelTook(u, script[t][1].order_id)) =>
      LET c == script[t][1]
          side == IF c.is_buy THEN book.bids ELSE book.asks
          key == SideKey(c.is_buy, to_bits(c.price))
      IN  key \in DOMAIN side /\ c.order_id \in DOMAIN side[key].orders

\* Order 1 has been added to the bids and order 2, added to its level, has
\* been cancelled: the level is still in the map, with order 1 alone.
C16_Witness ==
  /\ \E t \in Threads : AddReturned(t) /\ script[t][1] = AddOf(1, TRUE)
  /\ \E u \in Threads : CancelTook(u, 2) /\ call[u].loc[1] /\ pc[u] = "idle"
  /\ \A k \in DOMAIN book.bids : DOMAIN book.bids[k].orders = {1}
  /\ DOMAIN book.bids # {}

\* ------------------------------------------------------------ the claim C17

\* C17: a modify is applied as cancel_order, then add_order; when the
\* add_order has been made, the order is resident exactly once, in the level
\* of the new side and price, with the new size.
C17_ModifyLeavesOrderOnce ==
  [][(consumer.pc = "modify_add" /\ consumer'.pc = "recv") =>
       LET a == consumer.action.a
           b == orderbooks'[a.asset]
           is_buy == a.side[1] = "buy"
           key == SideKey(is_buy, to_bits(a.price[1]))
           side == IF is_buy THEN b.bids ELSE b.asks
       IN  /\ Residences(b, a.order_id) = {<<is_buy, key>>}
           /\ side[key].orders[a.order_id].size = a.size[1]]_vars

\* Between the two calls of a modify of a resident order: the consumer holds
\* no lock, the order is in no level of either side, and a get_snapshot made
\* now reports no level at all.
C17_IntermediateObservable ==
  /\ consumer.pc = "modify_add"
  /\ consumer.action.a.asset = 0
  /\ applied = 1
  /\ orderbooks[0].sequence = 2
  /\ Residences(orderbooks[0], 1) = {}
  /\ get_snapshot(orderbooks[0], MaxDepth).bids = <<>>
  /\ get_snapshot(orderbooks[0], MaxDepth).asks = <<>>

\* ------------------------------------------------------------ the claim C18

\* C18: every modify advances the sequence counter by the same amount, 1 or
\* 2, whether or not its order id was in the book.
C18_ModifyIncrementFixed ==
  /\ incs \subseteq {1, 2}
  /\ Cardinality(incs) <= 1

\* ------------------------------------------------------------ the claim C19

\* The get_snapshot of thread t has returned; its result is call[t].val.
SnapshotReturned(t) == at[t] = 1 /\ call[t].op = "get_snapshot" /\ pc[t] = "idle"

\* C19: two snapshots of the book at the same depth that carry the same
\* sequence number list the same bid and ask levels (price, size and order
\* count), also when add_order and cancel_order calls run beside them.
C19_SameSequenceSameLevels ==
  \A t, u \in Threads :
    (/\ SnapshotReturned(t)
     /\ SnapshotReturned(u)
     /\ call[t].depth = call[u].depth
     /\ call[t].val.sequence = call[u].val.sequence)
    => (call[t].val.bids = call[u].val.bids /\ call[t].val.asks = call[u].val.asks)

\* ------------------------------------------------------------ the claim C20

\* Thread t is inside a call.
InCall(t) == pc[t] # "idle"

\* Thread t waits for a lock that it cannot be given now; at every other
\* point of a call a thread can take its step.
Blocked(t) ==
  \/ pc[t] = "a_lock" /\ ~can_write(lock, readers, SideName(call[t].is_buy))
  \/ pc[t] = "c_lock" /\ ~can_write(lock, readers, SideName(call[t].loc[1]))
  \/ pc[t] = "s_bids" /\ ~can_read(lock, "bids", WaitingWriters("bids"))
  \/ pc[t] = "s_asks" /\ ~can_read(lock, "asks", WaitingWriters("asks"))

\* C20: get_snapshot holds the read lock of the bids whenever it holds that
\* of the asks; in no state is every thread that is inside a call blocked;
\* and, the threads being scheduled fairly, every get_snapshot, add_order and
\* cancel_order that has started returns: whatever calls are in progress, a
\* later state has none in progress.
C20_DeadlockFreeAndCompleting ==
  /\ [](readers.asks \subseteq readers.bids)
  /\ []((\E t \in Threads : InCall(t)) => \E t \in Threads : InCall(t) /\ ~Blocked(t))
  /\ []<>(\A t \in Threads : ~InCall(t))

\* A get_snapshot holds the bids' read lock and waits for the asks', which a
\* writer holds, while another writer waits for the bids.
C20_Witness ==
  /\ \E r \in Threads : pc[r] = "s_asks" /\ r \in readers.bids
  /\ lock.asks # 0
  /\ \E w \in Threads : pc[w] = "a_lock" /\ call[w].is_buy
====
